---------------------------- MODULE Spec2Model ----------------------------
(***************************************************************************)
(* Model of the detection enrichment pipeline of ebs-ai:                   *)
(*   src/src/services/detection_service.py  (DetectionService)             *)
(*   src/src/services/gemini_service.py     (GeminiService)                *)
(*   src/src/models/price_predictor.py      (PricePredictor)               *)
(*   src/src/models/yolo_detector.py        (YOLODetector)                 *)
(*   src/src/utils/mappings.py, src/src/utils/helpers.py                   *)
(*                                                                         *)
(* Conventions.                                                            *)
(*  - A confidence is the detector's round(conf, 3) in thousandths, so the *)
(*    float 0.5 is the integer 500.                                        *)
(*  - A bounding box is <<x1, y1, x2, y2>> in whole pixels.                *)
(*  - An IoU is the exact fraction <<intersection, union>>; comparing it   *)
(*    with a threshold is done by cross-multiplication.                    *)
(*  - Python's None is the empty sequence, a present value x is <<x>>.     *)
(*  - A text returned by the generative backend is a sequence of tokens.   *)
(***************************************************************************)
EXTENDS Integers, Sequences, FiniteSets, TLC

None == <<>>
Some(x) == <<x>>

Max2(a, b) == IF a >= b THEN a ELSE b
Min2(a, b) == IF a <= b THEN a ELSE b

(***************************************************************************)
(* Static tables                                                           *)
(***************************************************************************)
(* src/utils/mappings.py: the 77 class names of the detector, by class index 0..76
   (index k of the source is element k+1 of the sequence). *)
CLASS_NAMES ==
  <<
    "Air-Conditioner", "Bar-Phone", "Battery", "Blood-Pressure-Monitor", "Boiler",
    "CRT-Monitor", "CRT-TV", "Calculator", "Camera", "Ceiling-Fan", "Christmas-Lights",
    "Clothes-Iron", "Coffee-Machine", "Compact-Fluorescent-Lamps", "Computer-Keyboard",
    "Computer-Mouse", "Cooled-Dispenser", "Cooling-Display", "Dehumidifier",
    "Desktop-PC", "Digital-Oscilloscope", "Dishwasher", "Drone", "Electric-Bicycle",
    "Electric-Guitar", "Electrocardiograph-Machine", "Electronic-Keyboard",
    "Exhaust-Fan", "Flashlight", "Flat-Panel-Monitor", "Flat-Panel-TV", "Floor-Fan",
    "Freezer", "Glucose-Meter", "HDD", "Hair-Dryer", "Headphone", "LED-Bulb", "Laptop",
    "Microwave", "Music-Player", "Neon-Sign", "Network-Switch", "Non-Cooled-Dispenser",
    "Oven", "PCB", "Patient-Monitoring-System", "Photovoltaic-Panel", "PlayStation-5",
    "Power-Adapter", "Printer", "Projector", "Pulse-Oximeter", "Range-Hood",
    "Refrigerator", "Rotary-Mower", "Router", "SSD", "Server", "Smart-Watch",
    "Smartphone", "Smoke-Detector", "Soldering-Iron", "Speaker", "Stove",
    "Straight-Tube-Fluorescent-Lamp", "Street-Lamp", "TV-Remote-Control", "Table-Lamp",
    "Tablet", "Telephone-Set", "Toaster", "Tumble-Dryer", "USB-Flash-Drive",
    "Vacuum-Cleaner", "Washing-Machine", "Xbox-Series-X"
  >>

(* src/utils/mappings.py: detector class name -> price category. *)
YOLO_TO_PRICE_MAP ==
    ("Computer-Keyboard" :> "Keyboard") @@ ("Electronic-Keyboard" :> "Keyboard") @@
    ("Computer-Mouse" :> "Mouse") @@ ("Desktop-PC" :> "Komponen CPU") @@
    ("Server" :> "Komponen CPU") @@ ("PCB" :> "Komponen CPU") @@ ("HDD" :> "Hardisk") @@
    ("SSD" :> "Hardisk") @@ ("USB-Flash-Drive" :> "Flashdisk") @@
    ("Laptop" :> "Laptop") @@ ("Flat-Panel-Monitor" :> "Monitor") @@
    ("CRT-Monitor" :> "Monitor") @@ ("Digital-Oscilloscope" :> "Monitor") @@
    ("Patient-Monitoring-System" :> "Monitor") @@ ("Projector" :> "Monitor") @@
    ("Flat-Panel-TV" :> "TV") @@ ("CRT-TV" :> "TV") @@
    ("TV-Remote-Control" :> "Remot") @@ ("Smartphone" :> "Handphone") @@
    ("Bar-Phone" :> "Handphone") @@ ("Smart-Watch" :> "Jam Tangan") @@
    ("Tablet" :> "Handphone") @@ ("Camera" :> "Camera") @@ ("PlayStation-5" :> "PS2") @@
    ("Xbox-Series-X" :> "PS2") @@ ("Speaker" :> "Speaker") @@
    ("Headphone" :> "Speaker") @@ ("Music-Player" :> "Speaker") @@
    ("Electric-Guitar" :> "Speaker") @@ ("Power-Adapter" :> "Adaptor /Kilo") @@
    ("Battery" :> "Baterai Laptop") @@ ("Microwave" :> "Microwave") @@
    ("Coffee-Machine" :> "Oven") @@ ("Oven" :> "Oven") @@
    ("Stove" :> "Kompor Listrik") @@ ("Toaster" :> "Oven") @@
    ("Refrigerator" :> "Komponen Kulkas") @@ ("Freezer" :> "Komponen Kulkas") @@
    ("Cooled-Dispenser" :> "Komponen Kulkas") @@
    ("Non-Cooled-Dispenser" :> "Komponen Kulkas") @@
    ("Cooling-Display" :> "Komponen Kulkas") @@ ("Clothes-Iron" :> "Seterika") @@
    ("Boiler" :> "Kompor Listrik") @@ ("Hair-Dryer" :> "Hair Dryer") @@
    ("Rotary-Mower" :> "Kipas") @@ ("Soldering-Iron" :> "Solder") @@
    ("Vacuum-Cleaner" :> "Vacum Cleaner") @@ ("Washing-Machine" :> "Mesin Cuci") @@
    ("Dishwasher" :> "Mesin Cuci") @@ ("Tumble-Dryer" :> "Mesin Cuci") @@
    ("Ceiling-Fan" :> "Kipas") @@ ("Floor-Fan" :> "Kipas") @@
    ("Exhaust-Fan" :> "Kipas") @@ ("Range-Hood" :> "Kipas") @@
    ("Air-Conditioner" :> "AC") @@ ("Dehumidifier" :> "AC") @@
    ("Printer" :> "Printer") @@ ("Calculator" :> "Alat Tes Vol") @@
    ("Router" :> "Router") @@ ("Network-Switch" :> "Router") @@
    ("LED-Bulb" :> "Lampu") @@ ("Table-Lamp" :> "Lampu") @@
    ("Straight-Tube-Fluorescent-Lamp" :> "Lampu") @@
    ("Compact-Fluorescent-Lamps" :> "Lampu") @@ ("Christmas-Lights" :> "Lampu") @@
    ("Neon-Sign" :> "Neon Box") @@ ("Street-Lamp" :> "Lampu") @@
    ("Blood-Pressure-Monitor" :> "Alat Tensi") @@
    ("Electrocardiograph-Machine" :> "Monitor") @@ ("Glucose-Meter" :> "Alat Tes Vol") @@
    ("Pulse-Oximeter" :> "Alat Tes Vol") @@ ("Drone" :> "Kipas") @@
    ("Electric-Bicycle" :> "Aki Motor") @@ ("Photovoltaic-Panel" :> "Panel Surya") @@
    ("Telephone-Set" :> "Telefon") @@ ("Flashlight" :> "Senter") @@
    ("Smoke-Detector" :> "Monitor")

(* src/utils/mappings.py: the categories the price model accepts. *)
PRICE_CATEGORIES ==
  {
    "AC", "Adaptor /Kilo", "Aki Motor", "Alat Tensi", "Alat Tes Vol", "Baterai Laptop",
    "CPU Intel", "Camera", "Flashdisk", "Hair Dryer", "Handphone", "Hardisk",
    "Jam Tangan", "Keyboard", "Kipas", "Komponen CPU", "Komponen Kulkas",
    "Kompor Listrik", "Lampu", "Laptop", "Mesin Cuci", "Microwave", "Monitor", "Mouse",
    "Neon Box", "Oven", "PS2", "Panel Surya", "Printer", "Remot", "Router", "Senter",
    "Seterika", "Solder", "Speaker", "TV", "Telefon", "Vacum Cleaner"
  }

(* str.lower() on every category string of the model: the class names, the
   price categories and the categories a validation reply proposes. *)
LowerTable ==
    ("AC" :> "ac") @@ ("Adaptor /Kilo" :> "adaptor /kilo") @@
    ("Air-Conditioner" :> "air-conditioner") @@ ("Aki Motor" :> "aki motor") @@
    ("Alat Tensi" :> "alat tensi") @@ ("Alat Tes Vol" :> "alat tes vol") @@
    ("Bar-Phone" :> "bar-phone") @@ ("Baterai Laptop" :> "baterai laptop") @@
    ("Battery" :> "battery") @@ ("Blood-Pressure-Monitor" :> "blood-pressure-monitor") @@
    ("Boiler" :> "boiler") @@ ("CPU Intel" :> "cpu intel") @@
    ("CRT-Monitor" :> "crt-monitor") @@ ("CRT-TV" :> "crt-tv") @@
    ("Calculator" :> "calculator") @@ ("Camera" :> "camera") @@
    ("Ceiling-Fan" :> "ceiling-fan") @@ ("Christmas-Lights" :> "christmas-lights") @@
    ("Clothes-Iron" :> "clothes-iron") @@ ("Coffee-Machine" :> "coffee-machine") @@
    ("Compact-Fluorescent-Lamps" :> "compact-fluorescent-lamps") @@
    ("Computer-Keyboard" :> "computer-keyboard") @@
    ("Computer-Mouse" :> "computer-mouse") @@
    ("Cooled-Dispenser" :> "cooled-dispenser") @@
    ("Cooling-Display" :> "cooling-display") @@ ("Dehumidifier" :> "dehumidifier") @@
    ("Desktop-PC" :> "desktop-pc") @@
    ("Digital-Oscilloscope" :> "digital-oscilloscope") @@
    ("Dishwasher" :> "dishwasher") @@ ("Drone" :> "drone") @@
    ("Electric-Bicycle" :> "electric-bicycle") @@
    ("Electric-Guitar" :> "electric-guitar") @@
    ("Electrocardiograph-Machine" :> "electrocardiograph-machine") @@
    ("Electronic-Keyboard" :> "electronic-keyboard") @@
    ("Exhaust-Fan" :> "exhaust-fan") @@ ("Flashdisk" :> "flashdisk") @@ ("Gadget" :> "gadget") @@
    ("Flashlight" :> "flashlight") @@ ("Flat-Panel-Monitor" :> "flat-panel-monitor") @@
    ("Flat-Panel-TV" :> "flat-panel-tv") @@ ("Floor-Fan" :> "floor-fan") @@
    ("Freezer" :> "freezer") @@ ("Glucose-Meter" :> "glucose-meter") @@
    ("HDD" :> "hdd") @@ ("Hair Dryer" :> "hair dryer") @@
    ("Hair-Dryer" :> "hair-dryer") @@ ("Handphone" :> "handphone") @@
    ("Hardisk" :> "hardisk") @@ ("Headphone" :> "headphone") @@
    ("Jam Tangan" :> "jam tangan") @@ ("Keyboard" :> "keyboard") @@
    ("Kipas" :> "kipas") @@ ("Komponen CPU" :> "komponen cpu") @@
    ("Komponen Kulkas" :> "komponen kulkas") @@ ("Kompor Listrik" :> "kompor listrik") @@
    ("LED-Bulb" :> "led-bulb") @@ ("Lampu" :> "lampu") @@ ("Laptop" :> "laptop") @@
    ("Mesin Cuci" :> "mesin cuci") @@ ("Microwave" :> "microwave") @@
    ("Monitor" :> "monitor") @@ ("Mouse" :> "mouse") @@
    ("Music-Player" :> "music-player") @@ ("Neon Box" :> "neon box") @@
    ("Neon-Sign" :> "neon-sign") @@ ("Network-Switch" :> "network-switch") @@
    ("Non-Cooled-Dispenser" :> "non-cooled-dispenser") @@ ("Oven" :> "oven") @@
    ("PCB" :> "pcb") @@ ("PS2" :> "ps2") @@ ("Panel Surya" :> "panel surya") @@
    ("Patient-Monitoring-System" :> "patient-monitoring-system") @@
    ("Photovoltaic-Panel" :> "photovoltaic-panel") @@
    ("PlayStation-5" :> "playstation-5") @@ ("Power-Adapter" :> "power-adapter") @@
    ("Printer" :> "printer") @@ ("Projector" :> "projector") @@
    ("Pulse-Oximeter" :> "pulse-oximeter") @@ ("Range-Hood" :> "range-hood") @@
    ("Refrigerator" :> "refrigerator") @@ ("Remot" :> "remot") @@
    ("Rotary-Mower" :> "rotary-mower") @@ ("Router" :> "router") @@ ("SSD" :> "ssd") @@
    ("Senter" :> "senter") @@ ("Server" :> "server") @@ ("Seterika" :> "seterika") @@
    ("Smart-Watch" :> "smart-watch") @@ ("Smartphone" :> "smartphone") @@
    ("Smoke-Detector" :> "smoke-detector") @@ ("Solder" :> "solder") @@
    ("Soldering-Iron" :> "soldering-iron") @@ ("Speaker" :> "speaker") @@
    ("Stove" :> "stove") @@
    ("Straight-Tube-Fluorescent-Lamp" :> "straight-tube-fluorescent-lamp") @@
    ("Street-Lamp" :> "street-lamp") @@ ("TV" :> "tv") @@
    ("TV-Remote-Control" :> "tv-remote-control") @@ ("Table-Lamp" :> "table-lamp") @@
    ("Tablet" :> "tablet") @@ ("Telefon" :> "telefon") @@
    ("Telephone-Set" :> "telephone-set") @@ ("Toaster" :> "toaster") @@
    ("Tumble-Dryer" :> "tumble-dryer") @@ ("USB-Flash-Drive" :> "usb-flash-drive") @@
    ("Vacum Cleaner" :> "vacum cleaner") @@ ("Vacuum-Cleaner" :> "vacuum-cleaner") @@
    ("Washing-Machine" :> "washing-machine") @@ ("Xbox-Series-X" :> "xbox-series-x")

(* get_mapped_category without the table lookup *)
get_mapped_category_identity(yolo_class_name) == yolo_class_name

(* get_mapped_category answering a fixed category for a label outside the table *)
get_mapped_category_default(yolo_class_name) ==
  IF yolo_class_name \in DOMAIN YOLO_TO_PRICE_MAP
    THEN YOLO_TO_PRICE_MAP[yolo_class_name]
    ELSE "Komponen CPU"

(* mappings.py get_mapped_category: table lookup, the label itself on a miss. *)
get_mapped_category(yolo_class_name) ==
  IF yolo_class_name \in DOMAIN YOLO_TO_PRICE_MAP
    THEN YOLO_TO_PRICE_MAP[yolo_class_name]
    ELSE yolo_class_name

(* is_valid_price_category accepting every category *)
is_valid_price_category_any(category) == TRUE

(* mappings.py is_valid_price_category *)
is_valid_price_category(category) == category \in PRICE_CATEGORIES

(* str.lower() *)
Lower(s) == LowerTable[s]

(* settings.py LOW_CONFIDENCE_THRESHOLD = 0.5, in thousandths *)
LOW_CONFIDENCE_THRESHOLD == 500

(* detection_service.py _filter_overlapping_detections default iou_threshold = 0.5,
   as the fraction IOU_THRESHOLD_NUM / IOU_THRESHOLD_DEN *)
IOU_THRESHOLD_NUM == 1
IOU_THRESHOLD_DEN == 2

(* detection_service.py _is_valid_crop default min_size *)
MIN_CROP_SIZE == 32

(* default damage level of the pipeline and of analyze_damage_level *)
DEFAULT_DAMAGE_LEVEL == 3

(* helpers.py calculate_risk_level: base_risk table *)
base_risk ==
  ("TV" :> 4) @@ ("Monitor" :> 4) @@ ("Refrigerator" :> 5) @@ ("Air-Conditioner" :> 5) @@
  ("Smartphone" :> 4) @@ ("Laptop" :> 4) @@ ("Desktop-PC" :> 3) @@ ("Printer" :> 3) @@
  ("Keyboard" :> 2) @@ ("Mouse" :> 2)

(* calculate_risk_level without the cap of line 130 *)
calculate_risk_level_uncapped(category, confidence) ==
  LET risk == IF category \in DOMAIN base_risk THEN base_risk[category] ELSE 3
  IN  IF confidence < LOW_CONFIDENCE_THRESHOLD THEN risk + 1 ELSE risk

(* helpers.py calculate_risk_level *)
calculate_risk_level(category, confidence) ==
  LET risk == IF category \in DOMAIN base_risk THEN base_risk[category] ELSE 3
  IN  IF confidence < LOW_CONFIDENCE_THRESHOLD THEN Min2(5, risk + 1) ELSE risk

(***************************************************************************)
(* Geometry / suppression                                                  *)
(***************************************************************************)

(* _calculate_iou without the max(0, .) of line 66 *)
calculate_iou_unclamped(box1, box2) ==
  LET x1 == Max2(box1[1], box2[1])
      y1 == Max2(box1[2], box2[2])
      x2 == Min2(box1[3], box2[3])
      y2 == Min2(box1[4], box2[4])
      intersection == (x2 - x1) * (y2 - y1)
      box1_area == (box1[3] - box1[1]) * (box1[4] - box1[2])
      box2_area == (box2[3] - box2[1]) * (box2[4] - box2[2])
      union == box1_area + box2_area - intersection
  IN  IF union > 0 THEN <<intersection, union>> ELSE <<0, 1>>

(* _calculate_iou with the union taken as the sum of the two areas *)
calculate_iou_union_sum(box1, box2) ==
  LET x1 == Max2(box1[1], box2[1])
      y1 == Max2(box1[2], box2[2])
      x2 == Min2(box1[3], box2[3])
      y2 == Min2(box1[4], box2[4])
      intersection == Max2(0, x2 - x1) * Max2(0, y2 - y1)
      box1_area == (box1[3] - box1[1]) * (box1[4] - box1[2])
      box2_area == (box2[3] - box2[1]) * (box2[4] - box2[2])
      union == box1_area + box2_area
  IN  IF union > 0 THEN <<intersection, union>> ELSE <<0, 1>>

(* detection_service.py _calculate_iou: <<intersection, union>> when union > 0,
   the fraction 0/1 otherwise. *)
calculate_iou(box1, box2) ==
  LET x1 == Max2(box1[1], box2[1])
      y1 == Max2(box1[2], box2[2])
      x2 == Min2(box1[3], box2[3])
      y2 == Min2(box1[4], box2[4])
      intersection == Max2(0, x2 - x1) * Max2(0, y2 - y1)
      box1_area == (box1[3] - box1[1]) * (box1[4] - box1[2])
      box2_area == (box2[3] - box2[1]) * (box2[4] - box2[2])
      union == box1_area + box2_area - intersection
  IN  IF union > 0 THEN <<intersection, union>> ELSE <<0, 1>>

(* iou > num/den for a fraction iou with a positive denominator *)
IouGreater(iou, num, den) == iou[1] * den > num * iou[2]

(* an unstable sort: an element is placed ahead of the elements of equal
   confidence already placed *)
RECURSIVE InsertByConfidence_unstable(_, _)
InsertByConfidence_unstable(det, sorted) ==
  IF sorted = <<>> THEN <<det>>
  ELSE IF Head(sorted).confidence > det.confidence
         THEN <<Head(sorted)>> \o InsertByConfidence_unstable(det, Tail(sorted))
         ELSE <<det>> \o sorted

(* sorted(..., key=confidence, reverse=True) is stable: an element is placed
   after every element of greater or equal confidence already placed. *)
RECURSIVE InsertByConfidence(_, _)
InsertByConfidence(det, sorted) ==
  IF sorted = <<>> THEN <<det>>
  ELSE IF Head(sorted).confidence >= det.confidence
         THEN <<Head(sorted)>> \o InsertByConfidence(det, Tail(sorted))
         ELSE <<det>> \o sorted

RECURSIVE SortByConfidenceDesc(_)
SortByConfidenceDesc(dets) ==
  IF dets = <<>> THEN <<>>
  ELSE InsertByConfidence(dets[Len(dets)],
                          SortByConfidenceDesc(SubSeq(dets, 1, Len(dets) - 1)))

(* is_overlapping with the comparison of line 98 turned round (iou < threshold) *)
is_overlapping_below(det, filtered) ==
  \E k \in 1..Len(filtered) :
     LET iou == calculate_iou(det.bbox, filtered[k].bbox)
     IN  iou[1] * IOU_THRESHOLD_DEN < IOU_THRESHOLD_NUM * iou[2]

(* is_overlapping rejecting at an IoU equal to the threshold (iou >= threshold) *)
is_overlapping_inclusive(det, filtered) ==
  \E k \in 1..Len(filtered) :
     LET iou == calculate_iou(det.bbox, filtered[k].bbox)
     IN  iou[1] * IOU_THRESHOLD_DEN >= IOU_THRESHOLD_NUM * iou[2]

(* the inner loop of _filter_overlapping_detections (lines 95-101) *)
is_overlapping(det, filtered) ==
  \E k \in 1..Len(filtered) :
     IouGreater(calculate_iou(det.bbox, filtered[k].bbox),
                IOU_THRESHOLD_NUM, IOU_THRESHOLD_DEN)

(* the outer loop of _filter_overlapping_detections (lines 93-104) *)
RECURSIVE FilterLoop(_, _)
FilterLoop(sorted, filtered) ==
  IF sorted = <<>> THEN filtered
  ELSE FilterLoop(Tail(sorted),
                  IF is_overlapping(Head(sorted), filtered)
                    THEN filtered
                    ELSE Append(filtered, Head(sorted)))

(* _filter_overlapping_detections without the sort of line 90 *)
filter_overlapping_detections_unsorted(dets) ==
  IF dets = <<>> THEN <<>> ELSE FilterLoop(dets, <<>>)

(* detection_service.py _filter_overlapping_detections *)
filter_overlapping_detections(dets) ==
  IF dets = <<>> THEN <<>> ELSE FilterLoop(SortByConfidenceDesc(dets), <<>>)

(***************************************************************************)
(* Generative backend (GeminiService)                                      *)
(*                                                                         *)
(* A backend reply is a record whose field kind is                         *)
(*   "raise"   Image.open or model.generate_content raised                 *)
(*   "empty"   response.text is empty                                      *)
(*   "badjson" response.text is not JSON (json.JSONDecodeError)            *)
(*   "nondict" response.text is JSON but not an object (.get raises)       *)
(*   "json"    response.text is a JSON object, fields given in the record  *)
(*   "badvalue" a JSON object whose damage_level is not an integer         *)
(*   "text"    response.text is free text, given in field text             *)
(***************************************************************************)

(* response_models.py ValidationResult (gemini_feedback is only logged) *)
ValidationResult(is_valid, final_category, detection_source) ==
  [is_valid |-> is_valid, final_category |-> final_category,
   detection_source |-> detection_source]

(* ValidationFallback handing back the detector's label instead of the mapped
   category *)
ValidationFallback_label(yolo_prediction, mapped_category) ==
  ValidationResult(TRUE, Some(yolo_prediction), "YOLO")

(* the result validate_detection returns on every failure of the call
   (gemini_service.py lines 50-55, 109-114, 120-125, 415-420) *)
ValidationFallback(yolo_prediction, mapped_category) ==
  ValidationResult(TRUE, Some(mapped_category), "YOLO")

(* the exception marker of an operator whose code raised *)
Raised == [raised |-> TRUE]

(* _process_validation_response without the membership test of line 398 *)
process_validation_response_unchecked(reply, mapped_category, yolo_prediction) ==
  CASE reply.kind = "badjson" -> ValidationFallback(yolo_prediction, mapped_category)
    [] reply.kind = "nondict" -> Raised
    [] OTHER ->
         IF reply.is_category_correct
           THEN ValidationResult(TRUE, Some(mapped_category), "YOLO")
         ELSE IF reply.correct_category # None
           THEN ValidationResult(TRUE, reply.correct_category, "Gemini Interfered")
         ELSE ValidationResult(FALSE, None, "Rejected")

(* gemini_service.py _process_validation_response *)
process_validation_response(reply, mapped_category, yolo_prediction) ==
  CASE reply.kind = "badjson" -> ValidationFallback(yolo_prediction, mapped_category)
    [] reply.kind = "nondict" -> Raised
    [] OTHER ->
         IF reply.is_category_correct
           THEN ValidationResult(TRUE, Some(mapped_category), "YOLO")
         ELSE IF reply.correct_category # None
                 /\ is_valid_price_category(reply.correct_category[1])
           THEN ValidationResult(TRUE, reply.correct_category, "Gemini Interfered")
         ELSE ValidationResult(FALSE, None, "Rejected")

(* gemini_service.py validate_detection; reply is read only when the service
   is available *)
validate_detection(available, reply, yolo_prediction, mapped_category) ==
  IF ~available THEN ValidationFallback(yolo_prediction, mapped_category)
  ELSE IF reply.kind = "raise" THEN ValidationFallback(yolo_prediction, mapped_category)
  ELSE IF reply.kind = "empty" THEN ValidationFallback(yolo_prediction, mapped_category)
  ELSE LET r == process_validation_response(reply, mapped_category, yolo_prediction)
       IN  IF r = Raised THEN ValidationFallback(yolo_prediction, mapped_category)
           ELSE r

(* lines 276-288 keeping the canonical category whatever validation returned *)
validation_decision_mapped(validation, mapped_category) ==
  IF validation = Raised
    THEN [final_category |-> mapped_category,
          detection_source |-> "YOLO (Gemini exception)"]
  ELSE IF ~validation.is_valid
    THEN [final_category |-> mapped_category,
          detection_source |-> "YOLO (Gemini fail)"]
  ELSE [final_category |-> mapped_category,
        detection_source |-> validation.detection_source]

(* detection_service.py process_image_complete lines 276-288: the category and
   the source marker decided from the validation result *)
validation_decision(validation, mapped_category) ==
  IF validation = Raised
    THEN [final_category |-> mapped_category,
          detection_source |-> "YOLO (Gemini exception)"]
  ELSE IF ~validation.is_valid
    THEN [final_category |-> mapped_category,
          detection_source |-> "YOLO (Gemini fail)"]
  ELSE [final_category |-> IF validation.final_category # None
                             THEN validation.final_category[1]
                             ELSE mapped_category,
        detection_source |-> validation.detection_source]

(* what happened to the validation call, for the properties *)
ValidationStatus(available, reply) ==
  IF ~available THEN "unavailable"
  ELSE CASE reply.kind = "raise" -> "exception"
         [] reply.kind = "empty" -> "empty"
         [] reply.kind = "badjson" -> "unparseable"
         [] reply.kind = "nondict" -> "unparseable"
         [] OTHER ->
              IF reply.is_category_correct THEN "confirmed"
              ELSE IF reply.correct_category # None
                      /\ reply.correct_category[1] \in PRICE_CATEGORIES
                THEN "corrected"
              ELSE "rejected"

(* analyze_damage_level answering 0 ("unknown") when the call fails *)
analyze_damage_level_zero(available, reply) ==
  IF ~available THEN 0
  ELSE IF reply.kind = "json"
    THEN IF reply.damage_level = None THEN DEFAULT_DAMAGE_LEVEL
         ELSE reply.damage_level[1]
  ELSE 0

(* gemini_service.py analyze_damage_level: the level of the returned pair (the
   analysis text is only logged by the caller).  In a "json" reply
   damage_level is None when the key is absent and <<v>> for an integer v;
   a "badvalue" reply is a JSON object whose damage_level int() rejects
   (ValueError, or TypeError for null, both ending in the default). *)
analyze_damage_level(available, reply) ==
  IF ~available THEN DEFAULT_DAMAGE_LEVEL
  ELSE IF reply.kind = "json"
    THEN IF reply.damage_level = None THEN DEFAULT_DAMAGE_LEVEL
         ELSE reply.damage_level[1]
  ELSE DEFAULT_DAMAGE_LEVEL

(* what happened to the damage call, for the properties *)
DamageStatus(available, reply) ==
  IF ~available THEN "unavailable"
  ELSE CASE reply.kind = "raise" -> "exception"
         [] reply.kind = "empty" -> "empty"
         [] reply.kind = "json" -> "parsed"
         [] OTHER -> "unparseable"

(* the deterministic default description f"Perangkat elektronik {category.lower()}" *)
DefaultDescription(category) == <<"Perangkat elektronik", " ", Lower(category)>>

(* the three generic suggestions (detection_service.py lines 239-243 and 331-335,
   gemini_service.py lines 195-199) *)
default_suggestions ==
  <<"Periksa panduan manufacturer", "Pisahkan komponen berbahaya",
    "Bawa ke pusat daur ulang e-waste">>

(* str.strip() on a token sequence: blanks at both ends are removed *)
RECURSIVE LStrip(_)
LStrip(text) ==
  IF text # <<>> /\ Head(text) = " " THEN LStrip(Tail(text)) ELSE text

RECURSIVE RStrip(_)
RStrip(text) ==
  IF text # <<>> /\ text[Len(text)] = " "
    THEN RStrip(SubSeq(text, 1, Len(text) - 1)) ELSE text

Strip(text) == RStrip(LStrip(text))

(* gemini_service.py generate_description *)
generate_description(available, reply, category) ==
  IF ~available THEN DefaultDescription(category)
  ELSE IF reply.kind = "text" /\ reply.text # <<>> THEN Strip(reply.text)
  ELSE DefaultDescription(category)

(* re.sub(r'[*_#]', '', ...) *)
RECURSIVE RemoveMarkup(_)
RemoveMarkup(text) ==
  IF text = <<>> THEN <<>>
  ELSE IF Head(text) \in {"*", "_", "#"} THEN RemoveMarkup(Tail(text))
  ELSE <<Head(text)>> \o RemoveMarkup(Tail(text))

(* re.sub(r'^(kategori|analisis|deskripsi)[:.]\s*', '', ..., IGNORECASE) *)
RemovePrefix(text) ==
  IF text # <<>> /\ Head(text) \in {"Kategori:", "Analisis:", "Deskripsi:"}
    THEN LStrip(Tail(text)) ELSE text

(* re.sub(r'\s+', ' ', ...) *)
RECURSIVE CollapseBlanks(_)
CollapseBlanks(text) ==
  IF Len(text) < 2 THEN text
  ELSE IF text[1] = " " /\ text[2] = " " THEN CollapseBlanks(Tail(text))
  ELSE <<Head(text)>> \o CollapseBlanks(Tail(text))

(* detection_service.py _clean_description.  The texts of the model hold no
   digits or bullets at a line start and stay under 100 characters, so the
   substitutions of lines 125-126 and the cut of lines 133-134 leave them as
   they are. *)
clean_description(description) ==
  Strip(CollapseBlanks(RemovePrefix(RemoveMarkup(description))))

(* gemini_service.py generate_suggestions lines 259-263: a line of the reply is
   [numbered, dot, body]: whether its stripped text starts with a digit 1-9,
   whether it holds a '.', and the stripped text after the first '.'.  The
   result is [raised, items]; raised when a numbered line has no '.'
   (IndexError of split('.', 1)[1]). *)
RECURSIVE ParseNumbered(_)
ParseNumbered(lines) ==
  IF lines = <<>> THEN [raised |-> FALSE, items |-> <<>>]
  ELSE LET line == Head(lines)
           rest == ParseNumbered(Tail(lines))
       IN  IF ~line.numbered THEN rest
           ELSE IF ~line.dot THEN [raised |-> TRUE, items |-> <<>>]
           ELSE [raised |-> rest.raised, items |-> <<line.body>> \o rest.items]

(* gemini_service.py generate_suggestions lines 265-266 *)
RECURSIVE FillDefaults(_)
FillDefaults(suggestions) ==
  IF Len(suggestions) < 3
    THEN FillDefaults(Append(suggestions, default_suggestions[Len(suggestions) + 1]))
    ELSE suggestions

(* generate_suggestions without the cut to three entries of line 267 *)
generate_suggestions_uncut(available, reply) ==
  IF ~available THEN default_suggestions
  ELSE IF reply.kind = "text" /\ reply.text # <<>>
    THEN LET parsed == ParseNumbered(reply.text)
         IN  IF parsed.raised THEN default_suggestions
             ELSE FillDefaults(parsed.items)
  ELSE default_suggestions

(* gemini_service.py generate_suggestions *)
generate_suggestions(available, reply) ==
  IF ~available THEN default_suggestions
  ELSE IF reply.kind = "text" /\ reply.text # <<>>
    THEN LET parsed == ParseNumbered(reply.text)
         IN  IF parsed.raised THEN default_suggestions
             ELSE SubSeq(FillDefaults(parsed.items), 1, 3)
  ELSE default_suggestions

(* coarse status of a free-text call *)
TextStatus(available, reply) ==
  IF ~available THEN "unavailable"
  ELSE IF reply.kind = "raise" THEN "exception"
  ELSE IF reply.kind = "text" /\ reply.text # <<>> THEN "text"
  ELSE "empty"

(* detection_service.py _generate_content_with_timeout: the pair returned.
   Both generate_description and generate_suggestions run to completion
   without a suspension point (the backend call is a plain blocking call), so
   timed_out is the only way the handler of lines 154-156 is entered. *)
generate_content_with_timeout(description, suggestions, category, timed_out) ==
  IF timed_out
    THEN [description |-> <<category, " ", "terdeteksi dalam gambar.">>,
          suggestions |-> <<"Bawa ke pusat daur ulang e-waste terdekat.">>]
    ELSE [description |-> clean_description(description),
          suggestions |-> suggestions]

(* detection_service.py process_image_complete lines 326-335: the content kept,
   the defaults when the description or the suggestions are empty *)
content_decision(content, final_category) ==
  IF content.description = <<>> \/ content.suggestions = <<>>
    THEN [description |-> DefaultDescription(final_category),
          suggestions |-> default_suggestions]
    ELSE content

(***************************************************************************)
(* Price model (PricePredictor)                                            *)
(***************************************************************************)

(* the regression result int(prediction[0]) for a category; the model is a
   fixed function of the category inside one process *)
PRICE_SAMPLE == 150000

(* price_predictor.py predict_price.  price_model is
   "unloaded"  load_models failed
   "ok"        the encoder accepts column 'Nama Item'
   "keyerror"  'Nama Item' raises KeyError and column 'name' works
   "error"     the encoder or the model raises *)
predict_price(price_model, category) ==
  IF price_model = "unloaded" THEN None
  ELSE IF ~is_valid_price_category(category) THEN None
  ELSE IF price_model \in {"ok", "keyerror"} THEN Some(PRICE_SAMPLE)
  ELSE None

(* whether predict_price reaches encoder.transform / model.predict *)
price_model_consulted(price_model, category) ==
  price_model # "unloaded" /\ is_valid_price_category(category)

(* _is_valid_crop accepting a crop that is large enough in one dimension *)
is_valid_crop_either(openable, bbox) ==
  openable /\ (bbox[3] - bbox[1] >= MIN_CROP_SIZE \/ bbox[4] - bbox[2] >= MIN_CROP_SIZE)

(* detection_service.py _is_valid_crop: the crop file opens and is at least
   min_size wide and high.  The crop of an integer box has the box's size. *)
is_valid_crop(openable, bbox) ==
  openable /\ bbox[3] - bbox[1] >= MIN_CROP_SIZE /\ bbox[4] - bbox[2] >= MIN_CROP_SIZE

(* response_models.py FullPrediction *)
FullPrediction(id, category, confidence, result, text, bbox, suggestion, risk, damage, source) ==
  [id |-> id, category |-> category, confidence |-> confidence,
   regression_result |-> result, description |-> text,
   bbox |-> bbox, suggestion |-> suggestion, risk_lvl |-> risk,
   damage_level |-> damage, detection_source |-> source]

(* the result assembled with the request's confidence_threshold in place of
   the detection's confidence *)
enriched_prediction_threshold(id, det, category, result, text, suggestion, damage, source) ==
  FullPrediction(id, category, LOW_CONFIDENCE_THRESHOLD, result, text, det.bbox, suggestion,
                 calculate_risk_level(category, det.confidence), damage, source)

(* the result assembled with the id of the detection in place of a fresh one *)
enriched_prediction_same_id(id, det, category, result, text, suggestion, damage, source) ==
  FullPrediction(det.id, category, det.confidence, result, text, det.bbox, suggestion,
                 calculate_risk_level(category, det.confidence), damage, source)

(* detection_service.py process_image_complete lines 336-348: the result of a
   detection that went through the cascade; id is what generate_unique_id
   returned *)
enriched_prediction(id, det, category, result, text, suggestion, damage, source) ==
  FullPrediction(id, category, det.confidence, result, text, det.bbox, suggestion,
                 calculate_risk_level(category, det.confidence), damage, source)

(* the too-small result carrying the plain detector marker *)
too_small_prediction_plain(id, det, mapped_category, price) ==
  FullPrediction(id, mapped_category, det.confidence, price,
                 DefaultDescription(mapped_category), det.bbox,
                 default_suggestions,
                 calculate_risk_level(mapped_category, det.confidence),
                 DEFAULT_DAMAGE_LEVEL, "YOLO")

(* detection_service.py process_image_complete lines 236-257: the result of a
   detection whose crop fails the minimum-size check *)
too_small_prediction(id, det, mapped_category, price) ==
  FullPrediction(id, mapped_category, det.confidence, price,
                 DefaultDescription(mapped_category), det.bbox,
                 default_suggestions,
                 calculate_risk_level(mapped_category, det.confidence),
                 DEFAULT_DAMAGE_LEVEL, "YOLO (crop too small)")

(***************************************************************************)
(* Bounds and inputs                                                       *)
(***************************************************************************)

(* longest list of raw detections the detector returns *)
MaxDet == 2

BoxA == <<0, 0, 64, 64>>
BoxB == <<0, 0, 64, 48>>
BoxSmall == <<100, 100, 116, 164>>

(* the raw detections the detector can emit: two large boxes that overlap
   with IoU 3/4, and a box narrower than the minimum crop size, once above
   and once below the large boxes in confidence *)
Candidates ==
  { [category |-> "Laptop", confidence |-> 900, bbox |-> BoxA],
    [category |-> "Smartphone", confidence |-> 500, bbox |-> BoxB],
    [category |-> "Desktop-PC", confidence |-> 400, bbox |-> BoxSmall],
    [category |-> "Smartphone", confidence |-> 950, bbox |-> BoxSmall] }

(* yolo_detector.py detect_objects lines 60-71: one Detection per box, each
   with a fresh id; the k-th detection of a request gets id k *)
Detection(id, c) ==
  [id |-> id, category |-> c.category, confidence |-> c.confidence, bbox |-> c.bbox]

RawDetections ==
  UNION { { [k \in 1..n |-> Detection(k, f[k])] : f \in [1..n -> Candidates] }
          : n \in 0..MaxDet }

ValidationReplies ==
  { [kind |-> "raise"], [kind |-> "empty"], [kind |-> "badjson"], [kind |-> "nondict"] }
  \cup { [kind |-> "json", is_category_correct |-> b, correct_category |-> c] :
           b \in BOOLEAN, c \in {None, Some("Monitor"), Some("Gadget")} }

DamageReplies ==
  { [kind |-> "raise"], [kind |-> "empty"], [kind |-> "badjson"], [kind |-> "badvalue"] }
  \cup { [kind |-> "json", damage_level |-> d] : d \in {None, Some(1), Some(7)} }

DescriptionReplies ==
  { [kind |-> "raise"], [kind |-> "text", text |-> <<>>],
    [kind |-> "text", text |-> <<"layar", " ", "retak">>],
    [kind |-> "text", text |-> <<" ", "*", "layar", " ", " ", "retak", "*", " ">>],
    [kind |-> "text", text |-> <<"*", "*">>] }

Numbered(body) == [numbered |-> TRUE, dot |-> TRUE, body |-> body]
Intro == [numbered |-> FALSE, dot |-> FALSE, body |-> ""]
NoDot == [numbered |-> TRUE, dot |-> FALSE, body |-> ""]

SuggestionReplies ==
  { [kind |-> "raise"], [kind |-> "text", text |-> <<>>],
    [kind |-> "text", text |-> <<Intro, Numbered("s1"), Numbered("s2"),
                                 Numbered("s3"), Numbered("s4")>>],
    [kind |-> "text", text |-> <<Numbered("s1")>>],
    [kind |-> "text", text |-> <<Intro>>],
    [kind |-> "text", text |-> <<Numbered("s1"), NoDot>>] }

(* category arguments of the price endpoint: a supported category, an
   unsupported one, and the lower-case spelling the endpoint test sends *)
PriceRequests == {"Laptop", "Gadget", "smartphone"}

(* outcomes of _save_cropped_bbox: the path is returned, Image.open/crop raises
   before the temporary file exists, or cropped.save raises after
   NamedTemporaryFile created it *)
CropOutcomes == {"ok", "raise_open", "raise_save"}

(***************************************************************************)
(* State                                                                   *)
(***************************************************************************)
VARIABLES
  pc,                  \* position of the request handler
  endpoint,            \* "none", "predict" (process_image_complete), "object",
                       \* "price" (predict_price_only)
  yolo_state,          \* "unavailable" (import failed), "not_loaded", "loaded"
  gemini_available,    \* GeminiService.is_available and model is not None
  price_model,         \* see predict_price
  detections,          \* what detect_objects returned
  filtered_detections,
  det_index,           \* position of the for loop in filtered_detections
  mapped_category, final_category, detection_source,
  damage_level, price, description, suggestions,
  predictions,
  cropped_paths,       \* list of crop files the handler remembers
  files,               \* temporary files that exist
  response,            \* the list in the returned response
  next_uuid,           \* generate_unique_id
  calls,               \* per surviving detection: number of calls of each stage
  consulted,           \* categories handed to the regression model
  crop_status, validation_status, damage_status,
  description_status, suggestions_status,
  price_request,       \* the category argument of predict_price_only
  price_response,      \* what predict_price_only returned
  passed_category,     \* the category argument each stage of the current
                       \* cascade was called with ("" when not yet called)
  fn_input, fn_output  \* argument and value of a helper function called alone

fnVars == <<fn_input, fn_output>>
priceVars == <<price_request, price_response>>
cfgVars == <<yolo_state, gemini_available, price_model>>
localVars == <<mapped_category, final_category, detection_source,
               damage_level, price, description, suggestions>>
statusVars == <<crop_status, validation_status, damage_status,
                description_status, suggestions_status>>
fsVars == <<cropped_paths, files>>

vars == <<pc, endpoint, detections, filtered_detections, det_index, predictions,
          response, next_uuid, calls, consulted,
          cfgVars, priceVars, fnVars, passed_category, localVars, statusVars, fsVars>>

ImageFile == <<"image", 0>>
CropFile(k) == <<"crop", k>>

NoCalls ==
  [crop |-> 0, validate |-> 0, damage |-> 0, price |-> 0,
   description |-> 0, suggestions |-> 0]

(* no stage of the cascade has been called yet *)
NoPassed == [damage |-> "", price |-> "", description |-> "", suggestions |-> "", risk |-> ""]

Called(stage) == [calls EXCEPT ![det_index][stage] = @ + 1]

cur_det == filtered_detections[det_index]

Init ==
  /\ pc = "idle"
  /\ endpoint = "none"
  /\ yolo_state \in {"unavailable", "not_loaded", "loaded"}
  /\ gemini_available \in BOOLEAN
  /\ price_model \in {"unloaded", "ok", "keyerror", "error"}
  /\ detections = <<>>
  /\ filtered_detections = <<>>
  /\ det_index = 0
  /\ mapped_category = ""
  /\ final_category = ""
  /\ detection_source = ""
  /\ damage_level = 0
  /\ price = None
  /\ description = <<>>
  /\ suggestions = <<>>
  /\ predictions = <<>>
  /\ cropped_paths = <<>>
  /\ files = {}
  /\ response = <<>>
  /\ next_uuid = 1
  /\ calls = <<>>
  /\ consulted = {}
  /\ crop_status = "none"
  /\ validation_status = "none"
  /\ damage_status = "none"
  /\ description_status = "none"
  /\ suggestions_status = "none"
  /\ price_request = ""
  /\ price_response = None
  /\ passed_category = NoPassed
  /\ fn_input = None
  /\ fn_output = None

(* the finally clause of process_image_complete (lines 356-360) *)
Finally(existing, remembered) ==
  existing \ ({ImageFile} \cup {remembered[k] : k \in 1..Len(remembered)})

(* the early return of line 214 never taken *)
no_detections_ignored(dets) == FALSE

(* line 214: the detector reported nothing *)
no_detections(dets) == dets = <<>>

(* process_image_complete lines 195-225: entry, detector call, early returns,
   suppression *)
Begin(raw) ==
  /\ pc = "idle"
  /\ yolo_state # "loaded" => raw = <<>>
  /\ endpoint' = "predict"
  /\ IF yolo_state = "unavailable"
       THEN /\ pc' = "done"
            /\ response' = <<>>
            /\ UNCHANGED <<detections, filtered_detections, det_index, next_uuid,
                           calls, files>>
     ELSE /\ detections' = raw
          /\ next_uuid' = Len(raw) + 1
          /\ IF no_detections(raw)
               THEN /\ pc' = "done"
                    /\ response' = <<>>
                    /\ files' = Finally(files \cup {ImageFile}, cropped_paths)
                    /\ UNCHANGED <<filtered_detections, det_index, calls>>
               ELSE /\ filtered_detections' = filter_overlapping_detections(raw)
                    /\ det_index' = 1
                    /\ calls' = [k \in 1..Len(filtered_detections') |-> NoCalls]
                    /\ files' = files \cup {ImageFile}
                    /\ pc' = "loop"
                    /\ UNCHANGED response
  /\ UNCHANGED <<predictions, cropped_paths, consulted, cfgVars, priceVars, fnVars, passed_category, localVars, statusVars>>

(* detect_objects_only lines 372-396 *)
DetectObjectsOnly(raw) ==
  /\ pc = "idle"
  /\ yolo_state # "loaded" => raw = <<>>
  /\ endpoint' = "object"
  /\ pc' = "done"
  /\ IF yolo_state # "loaded"
       THEN /\ response' = <<>>
            /\ UNCHANGED <<detections, filtered_detections, next_uuid>>
       ELSE /\ detections' = raw
            /\ next_uuid' = Len(raw) + 1
            /\ filtered_detections' = filter_overlapping_detections(raw)
            /\ response' = filtered_detections'
  /\ UNCHANGED <<det_index, predictions, calls, consulted,
                 cfgVars, priceVars, fnVars, passed_category, localVars, statusVars, fsVars>>

(* the response model of the price endpoint *)
PriceResponse(category, amount) == [category |-> category, price |-> amount]

(* detection_service.py predict_price_only; price_loaded is what load_models
   returned at construction *)
PredictPriceOnly(category) ==
  /\ pc = "idle"
  /\ endpoint' = "price"
  /\ pc' = "done"
  /\ price_request' = category
  /\ LET price_loaded == price_model # "unloaded"
         asked == price_loaded /\ is_valid_price_category(category)
         amount == predict_price(price_model, category)
     IN  /\ price_response' = IF asked /\ amount # None
                                THEN Some(PriceResponse(category, amount[1]))
                                ELSE None
         /\ consulted' = IF asked /\ price_model_consulted(price_model, category)
                           THEN consulted \cup {category} ELSE consulted
  /\ UNCHANGED <<detections, filtered_detections, det_index, predictions, response,
                 next_uuid, calls, cfgVars, fnVars, passed_category, localVars,
                 statusVars, fsVars>>

(* process_image_complete lines 353-360 after an exception left the loop *)
Abort(existing) ==
  /\ pc' = "done"
  /\ response' = <<>>
  /\ files' = Finally(existing, cropped_paths)

(* process_image_complete lines 228-259: mapping, crop, minimum-size check and
   the result of a crop that fails it *)
Crop(outcome, openable) ==
  /\ pc = "loop"
  /\ det_index <= Len(filtered_detections)
  /\ mapped_category' = get_mapped_category(cur_det.category)
  /\ calls' = IF outcome = "ok" /\ ~is_valid_crop(openable, cur_det.bbox)
                THEN [calls EXCEPT ![det_index]["crop"] = @ + 1,
                                   ![det_index]["price"] = @ + 1]
                ELSE Called("crop")
  /\ validation_status' = "none"
  /\ damage_status' = "none"
  /\ description_status' = "none"
  /\ suggestions_status' = "none"
  /\ CASE outcome = "raise_open" ->
            /\ Abort(files)
            /\ crop_status' = "raised"
            /\ UNCHANGED <<det_index, predictions, cropped_paths, next_uuid, consulted,
                           final_category, detection_source, damage_level, price,
                           description, suggestions>>
       [] outcome = "raise_save" ->
            /\ Abort(files \cup {CropFile(det_index)})
            /\ crop_status' = "raised"
            /\ UNCHANGED <<det_index, predictions, cropped_paths, next_uuid, consulted,
                           final_category, detection_source, damage_level, price,
                           description, suggestions>>
       [] OTHER ->
            /\ files' = files \cup {CropFile(det_index)}
            /\ cropped_paths' = Append(cropped_paths, CropFile(det_index))
            /\ UNCHANGED response
            /\ IF ~is_valid_crop(openable, cur_det.bbox)
                 THEN /\ crop_status' = IF openable THEN "too_small" ELSE "unopenable"
                      /\ final_category' = mapped_category'
                      /\ price' = predict_price(price_model, final_category')
                      /\ consulted' =
                           IF price_model_consulted(price_model, final_category')
                             THEN consulted \cup {final_category'} ELSE consulted
                      /\ description' = DefaultDescription(final_category')
                      /\ suggestions' = default_suggestions
                      /\ damage_level' = DEFAULT_DAMAGE_LEVEL
                      /\ detection_source' = "YOLO (crop too small)"
                      /\ predictions' =
                           Append(predictions,
                                  too_small_prediction(next_uuid, cur_det, mapped_category', price'))
                      /\ next_uuid' = next_uuid + 1
                      /\ det_index' = det_index + 1
                      /\ pc' = "loop"
                 ELSE /\ crop_status' = "ok"
                      /\ pc' = "validate"
                      /\ final_category' = ""
                      /\ detection_source' = ""
                      /\ damage_level' = 0
                      /\ price' = None
                      /\ description' = <<>>
                      /\ suggestions' = <<>>
                      /\ UNCHANGED <<det_index, predictions, next_uuid, consulted>>
  /\ passed_category' = NoPassed
  /\ UNCHANGED <<endpoint, detections, filtered_detections, cfgVars, priceVars, fnVars>>

(* lines 276-288 applied to the result of validate_detection *)
ApplyValidation(reply) ==
  LET validation == validate_detection(gemini_available, reply, cur_det.category,
                                       mapped_category)
      decision == validation_decision(validation, mapped_category)
  IN  /\ final_category' = decision.final_category
      /\ detection_source' = decision.detection_source
      /\ validation_status' = ValidationStatus(gemini_available, reply)

(* process_image_complete lines 261-273: validate_detection is called; when the
   service is unavailable it answers at once (gemini_service.py lines 48-55),
   otherwise the handler waits in model.generate_content *)
Validate ==
  /\ pc = "validate"
  /\ calls' = Called("validate")
  /\ IF gemini_available
       THEN /\ pc' = "wait_validate"
            /\ UNCHANGED <<final_category, detection_source, validation_status>>
       ELSE /\ pc' = "damage"
            /\ ApplyValidation([kind |-> "raise"])
  /\ UNCHANGED <<endpoint, detections, filtered_detections, det_index, predictions,
                 response, next_uuid, consulted, cfgVars, priceVars, fnVars, passed_category, fsVars,
                 mapped_category, damage_level, price, description, suggestions,
                 crop_status, damage_status, description_status, suggestions_status>>

(* ValidateReturn calling validate_detection a second time after the backend
   raised *)
ValidateReturn_retry(reply) ==
  /\ pc = "wait_validate"
  /\ IF reply.kind = "raise" /\ calls[det_index]["validate"] < 2
       THEN /\ pc' = "validate"
            /\ UNCHANGED <<final_category, detection_source, validation_status>>
       ELSE /\ pc' = "damage"
            /\ ApplyValidation(reply)
  /\ UNCHANGED <<endpoint, detections, filtered_detections, det_index, predictions,
                 response, next_uuid, calls, consulted, cfgVars, priceVars, fnVars, passed_category, fsVars,
                 mapped_category, damage_level, price, description, suggestions,
                 crop_status, damage_status, description_status, suggestions_status>>

(* the backend answers the validation request; lines 274-288 *)
ValidateReturn(reply) ==
  /\ pc = "wait_validate"
  /\ pc' = "damage"
  /\ ApplyValidation(reply)
  /\ UNCHANGED <<endpoint, detections, filtered_detections, det_index, predictions,
                 response, next_uuid, calls, consulted, cfgVars, priceVars, fnVars, passed_category, fsVars,
                 mapped_category, damage_level, price, description, suggestions,
                 crop_status, damage_status, description_status, suggestions_status>>

(* lines 291-306 applied to the reply *)
ApplyDamage(reply) ==
  /\ damage_level' = analyze_damage_level(gemini_available, reply)
  /\ damage_status' = DamageStatus(gemini_available, reply)

(* process_image_complete lines 290-302: analyze_damage_level is called *)
Damage ==
  /\ pc = "damage"
  /\ calls' = Called("damage")
  /\ IF gemini_available
       THEN /\ pc' = "wait_damage"
            /\ UNCHANGED <<damage_level, damage_status>>
       ELSE /\ pc' = "price"
            /\ ApplyDamage([kind |-> "raise"])
  /\ passed_category' = [passed_category EXCEPT !["damage"] = final_category]
  /\ UNCHANGED <<endpoint, detections, filtered_detections, det_index, predictions,
                 response, next_uuid, consulted, cfgVars, priceVars, fnVars, fsVars,
                 mapped_category, final_category, detection_source, price,
                 description, suggestions,
                 crop_status, validation_status, description_status, suggestions_status>>

(* the backend answers the damage request; lines 303-306 *)
DamageReturn(reply) ==
  /\ pc = "wait_damage"
  /\ pc' = "price"
  /\ ApplyDamage(reply)
  /\ UNCHANGED <<endpoint, detections, filtered_detections, det_index, predictions,
                 response, next_uuid, calls, consulted, cfgVars, priceVars, fnVars, passed_category, fsVars,
                 mapped_category, final_category, detection_source, price,
                 description, suggestions,
                 crop_status, validation_status, description_status, suggestions_status>>

(* the price lookup of line 309 made with the canonical category *)
Price_mapped ==
  /\ pc = "price"
  /\ pc' = "describe"
  /\ calls' = Called("price")
  /\ price' = predict_price(price_model, mapped_category)
  /\ consulted' = IF price_model_consulted(price_model, mapped_category)
                    THEN consulted \cup {mapped_category} ELSE consulted
  /\ passed_category' = [passed_category EXCEPT !["price"] = mapped_category]
  /\ UNCHANGED <<endpoint, detections, filtered_detections, det_index, predictions,
                 response, next_uuid, cfgVars, priceVars, fnVars, fsVars, statusVars,
                 mapped_category, final_category, detection_source, damage_level,
                 description, suggestions>>

(* process_image_complete line 309 *)
Price ==
  /\ pc = "price"
  /\ pc' = "describe"
  /\ calls' = Called("price")
  /\ price' = predict_price(price_model, final_category)
  /\ consulted' = IF price_model_consulted(price_model, final_category)
                    THEN consulted \cup {final_category} ELSE consulted
  /\ passed_category' = [passed_category EXCEPT !["price"] = final_category]
  /\ UNCHANGED <<endpoint, detections, filtered_detections, det_index, predictions,
                 response, next_uuid, cfgVars, priceVars, fnVars, fsVars, statusVars,
                 mapped_category, final_category, detection_source, damage_level,
                 description, suggestions>>

(* lines 326-335 applied to what _generate_content_with_timeout returned; the
   deadline cannot expire, see generate_content_with_timeout *)
ApplyContent(raw_description, raw_suggestions) ==
  LET content == generate_content_with_timeout(raw_description, raw_suggestions,
                                               final_category, FALSE)
      kept == content_decision(content, final_category)
  IN  /\ description' = kept.description
      /\ suggestions' = kept.suggestions

(* process_image_complete lines 311-323 and _generate_content_with_timeout
   lines 145-149: generate_description is called; an unavailable service
   answers both calls at once *)
Describe ==
  /\ pc = "describe"
  /\ IF gemini_available
       THEN /\ pc' = "wait_description"
            /\ calls' = Called("description")
            /\ passed_category' =
                 [passed_category EXCEPT !["description"] = final_category]
            /\ UNCHANGED <<description, suggestions,
                           description_status, suggestions_status>>
       ELSE /\ pc' = "assemble"
            /\ calls' = [calls EXCEPT ![det_index]["description"] = @ + 1,
                                      ![det_index]["suggestions"] = @ + 1]
            /\ description_status' = "unavailable"
            /\ suggestions_status' = "unavailable"
            /\ passed_category' =
                 [passed_category EXCEPT !["description"] = final_category,
                                         !["suggestions"] = final_category]
            /\ ApplyContent(generate_description(FALSE, [kind |-> "raise"], final_category),
                            generate_suggestions(FALSE, [kind |-> "raise"]))
  /\ UNCHANGED <<endpoint, detections, filtered_detections, det_index, predictions,
                 response, next_uuid, consulted, cfgVars, priceVars, fnVars, fsVars,
                 mapped_category, final_category, detection_source, damage_level, price,
                 crop_status, validation_status, damage_status>>

(* the backend answers the description request (gemini_service.py lines
   184-189); _generate_content_with_timeout goes on to call
   generate_suggestions (lines 150-152).  Until the content is decided,
   description holds what generate_description returned. *)
DescriptionReturn(reply) ==
  /\ pc = "wait_description"
  /\ pc' = "wait_suggestions"
  /\ calls' = Called("suggestions")
  /\ description' = generate_description(TRUE, reply, final_category)
  /\ description_status' = TextStatus(TRUE, reply)
  /\ passed_category' = [passed_category EXCEPT !["suggestions"] = final_category]
  /\ UNCHANGED <<endpoint, detections, filtered_detections, det_index, predictions,
                 response, next_uuid, consulted, cfgVars, priceVars, fnVars, fsVars,
                 mapped_category, final_category, detection_source, damage_level, price,
                 suggestions, crop_status, validation_status, damage_status,
                 suggestions_status>>

(* the backend answers the suggestion request (gemini_service.py lines
   257-271); lines 153 and 324-335 decide the content *)
SuggestionsReturn(reply) ==
  /\ pc = "wait_suggestions"
  /\ pc' = "assemble"
  /\ suggestions_status' = TextStatus(TRUE, reply)
  /\ ApplyContent(description, generate_suggestions(TRUE, reply))
  /\ UNCHANGED <<endpoint, detections, filtered_detections, det_index, predictions,
                 response, next_uuid, calls, consulted, cfgVars, priceVars, fnVars, passed_category, fsVars,
                 mapped_category, final_category, detection_source, damage_level, price,
                 crop_status, validation_status, damage_status, description_status>>

(* process_image_complete lines 336-349: risk level, result, next detection *)
Assemble ==
  /\ pc = "assemble"
  /\ pc' = "loop"
  /\ predictions' =
       Append(predictions,
              enriched_prediction(next_uuid, cur_det, final_category, price,
                                  description, suggestions, damage_level,
                                  detection_source))
  /\ next_uuid' = next_uuid + 1
  /\ det_index' = det_index + 1
  /\ passed_category' = [passed_category EXCEPT !["risk"] = final_category]
  /\ UNCHANGED <<endpoint, detections, filtered_detections, response, calls, consulted,
                 cfgVars, priceVars, fnVars, fsVars, localVars, statusVars>>

(* process_image_complete line 351 and the finally clause *)
Return ==
  /\ pc = "loop"
  /\ det_index > Len(filtered_detections)
  /\ pc' = "done"
  /\ response' = predictions
  /\ files' = Finally(files, cropped_paths)
  /\ UNCHANGED <<endpoint, detections, filtered_detections, det_index, predictions,
                 cropped_paths, next_uuid, calls, consulted,
                 cfgVars, priceVars, fnVars, passed_category, localVars, statusVars>>

Next ==
  \/ \E raw \in RawDetections : Begin(raw)
  \/ \E raw \in RawDetections : DetectObjectsOnly(raw)
  \/ \E category \in PriceRequests : PredictPriceOnly(category)
  \/ \E outcome \in CropOutcomes, openable \in BOOLEAN : Crop(outcome, openable)
  \/ Validate
  \/ \E reply \in ValidationReplies : ValidateReturn(reply)
  \/ Damage
  \/ \E reply \in DamageReplies : DamageReturn(reply)
  \/ Price
  \/ Describe
  \/ \E reply \in DescriptionReplies : DescriptionReturn(reply)
  \/ \E reply \in SuggestionReplies : SuggestionsReturn(reply)
  \/ Assemble
  \/ Return

Spec == Init /\ [][Next]_vars

(* the handler's own steps are taken when enabled; a reply of the backend is
   not: nothing in the code makes the backend answer *)
HandlerStep ==
  \/ \E raw \in RawDetections : Begin(raw)
  \/ \E outcome \in CropOutcomes, openable \in BOOLEAN : Crop(outcome, openable)
  \/ Validate \/ Damage \/ Price \/ Describe \/ Assemble \/ Return

FairSpec == Spec /\ WF_vars(HandlerStep)

(***************************************************************************)
(* _filter_overlapping_detections on its own, over lists with ties         *)
(***************************************************************************)

(* longest input list of the suppression *)
MaxSuppressLen == 3

BoxE == <<0, 0, 64, 32>>
BoxD == <<200, 200, 264, 264>>

(* boxes and confidences of the inputs: BoxA/BoxB have IoU 3/4, BoxB/BoxE
   2/3, BoxA/BoxE exactly 1/2, and BoxD meets none of them *)
SuppressCandidates ==
  { [category |-> "Laptop", confidence |-> c, bbox |-> b] :
      c \in {500, 900}, b \in {BoxA, BoxB, BoxE, BoxD} }

SuppressInputs ==
  UNION { { [k \in 1..n |-> Detection(k, f[k])] : f \in [1..n -> SuppressCandidates] }
          : n \in 0..MaxSuppressLen }

SuppressInit ==
  /\ pc = "idle"
  /\ endpoint = "none"
  /\ yolo_state = "loaded"
  /\ gemini_available = TRUE
  /\ price_model = "ok"
  /\ detections \in SuppressInputs
  /\ filtered_detections = <<>>
  /\ det_index = 0
  /\ mapped_category = ""
  /\ final_category = ""
  /\ detection_source = ""
  /\ damage_level = 0
  /\ price = None
  /\ description = <<>>
  /\ suggestions = <<>>
  /\ predictions = <<>>
  /\ cropped_paths = <<>>
  /\ files = {}
  /\ response = <<>>
  /\ next_uuid = Len(detections) + 1
  /\ calls = <<>>
  /\ consulted = {}
  /\ crop_status = "none"
  /\ validation_status = "none"
  /\ damage_status = "none"
  /\ description_status = "none"
  /\ suggestions_status = "none"
  /\ price_request = ""
  /\ price_response = None
  /\ passed_category = NoPassed
  /\ fn_input = None
  /\ fn_output = None

(* one call of _filter_overlapping_detections (lines 86-106) *)
Suppress ==
  /\ pc = "idle"
  /\ pc' = "suppressed"
  /\ filtered_detections' = filter_overlapping_detections(detections)
  /\ UNCHANGED <<endpoint, detections, det_index, predictions, response, next_uuid,
                 calls, consulted, cfgVars, priceVars, fnVars, passed_category, localVars, statusVars, fsVars>>

SuppressNext == Suppress

SuppressSpec == SuppressInit /\ [][SuppressNext]_vars

(***************************************************************************)
(* Helper functions called on their own                                    *)
(***************************************************************************)

(* the service at rest, before a helper is called with fn_input *)
HelperInit ==
  /\ pc = "idle"
  /\ endpoint = "none"
  /\ yolo_state = "loaded"
  /\ gemini_available = TRUE
  /\ price_model = "ok"
  /\ detections = <<>>
  /\ filtered_detections = <<>>
  /\ det_index = 0
  /\ mapped_category = ""
  /\ final_category = ""
  /\ detection_source = ""
  /\ damage_level = 0
  /\ price = None
  /\ description = <<>>
  /\ suggestions = <<>>
  /\ predictions = <<>>
  /\ cropped_paths = <<>>
  /\ files = {}
  /\ response = <<>>
  /\ next_uuid = 1
  /\ calls = <<>>
  /\ consulted = {}
  /\ crop_status = "none"
  /\ validation_status = "none"
  /\ damage_status = "none"
  /\ description_status = "none"
  /\ suggestions_status = "none"
  /\ price_request = ""
  /\ price_response = None
  /\ passed_category = NoPassed
  /\ fn_output = None

(* everything but the helper's position and value *)
HelperUnchanged ==
  UNCHANGED <<endpoint, detections, filtered_detections, det_index, predictions,
              response, next_uuid, calls, consulted, cfgVars, priceVars,
              passed_category, localVars, statusVars, fsVars, fn_input>>

(* labels handed to get_mapped_category: every key of the table (the 77 class
   names), price categories that are not keys, and labels in neither *)
MapLabels ==
  DOMAIN YOLO_TO_PRICE_MAP \cup {"Monitor", "TV", "Gadget", "smartphone", ""}

MapInit == HelperInit /\ fn_input \in MapLabels

(* one call of get_mapped_category (mappings.py lines 148-150) *)
GetMappedCategory ==
  /\ pc = "idle"
  /\ pc' = "mapped"
  /\ fn_output' = get_mapped_category(fn_input)
  /\ HelperUnchanged

MapNext == GetMappedCategory

MapSpec == MapInit /\ [][MapNext]_vars

(* class indices the detector's model reports: 0..76 *)
ClassIndices == 0..(Len(CLASS_NAMES) - 1)

ClassInit == HelperInit /\ fn_input \in ClassIndices

(* yolo_detector.py lines 61-62 and detection_service.py line 229: the label of
   a box of class fn_input and its canonical category *)
DetectClass ==
  /\ pc = "idle"
  /\ pc' = "labelled"
  /\ LET class_name == CLASS_NAMES[fn_input + 1]
     IN  fn_output' = [category |-> class_name,
                       mapped_category |-> get_mapped_category(class_name)]
  /\ HelperUnchanged

ClassNext == DetectClass

ClassSpec == ClassInit /\ [][ClassNext]_vars

(* arguments of calculate_risk_level: every category of the base table, two
   categories outside it, and confidences on both sides of the threshold *)
RiskCategories == DOMAIN base_risk \cup {"Handphone", "Komponen CPU"}
RiskConfidences == {0, 250, 499, 500, 501, 750, 1000}

RiskInit ==
  HelperInit /\ fn_input \in [category : RiskCategories, confidence : RiskConfidences]

(* one call of calculate_risk_level (helpers.py lines 120-131) *)
CalculateRiskLevel ==
  /\ pc = "idle"
  /\ pc' = "risk_done"
  /\ fn_output' = calculate_risk_level(fn_input.category, fn_input.confidence)
  /\ HelperUnchanged

RiskNext == CalculateRiskLevel

RiskSpec == RiskInit /\ [][RiskNext]_vars

(* largest coordinate of the boxes handed to _calculate_iou *)
MaxCoord == 2

(* boxes with x1 <= x2 and y1 <= y2, degenerate ones included *)
IouBoxes ==
  {<<x1, y1, x2, y2>> : x1 \in 0..MaxCoord, y1 \in 0..MaxCoord,
                        x2 \in 0..MaxCoord, y2 \in 0..MaxCoord}

OrderedIouBoxes == {b \in IouBoxes : b[1] <= b[3] /\ b[2] <= b[4]}

IouInit == HelperInit /\ fn_input \in OrderedIouBoxes \X OrderedIouBoxes

(* one call of _calculate_iou (lines 48-73) *)
CalculateIou ==
  /\ pc = "idle"
  /\ pc' = "iou_done"
  /\ fn_output' = calculate_iou(fn_input[1], fn_input[2])
  /\ HelperUnchanged

IouNext == CalculateIou

IouSpec == IouInit /\ [][IouNext]_vars

(***************************************************************************)
(* Properties                                                              *)
(***************************************************************************)

(* the request has returned through process_image_complete *)
Returned == pc = "done" /\ endpoint = "predict"

(* the most recent result, and the surviving detection it was built from *)
LastPrediction == predictions[Len(predictions)]
LastDetection == filtered_detections[Len(predictions)]

(* between the end of a cascade and the start of the next one the status
   variables describe the cascade of the most recent result *)
AfterCascade ==
  /\ pc \in {"loop", "done"}
  /\ predictions # <<>>
  /\ crop_status \in {"ok", "too_small", "unopenable"}

(* the width or the height of the crop of a box is under the minimum *)
BelowMinimumSize(bbox) ==
  bbox[3] - bbox[1] < MIN_CROP_SIZE \/ bbox[4] - bbox[2] < MIN_CROP_SIZE

(* the ways the validation call fails *)
ValidationFailures == {"unavailable", "exception", "empty", "unparseable"}

(* no vision stage was called for the k-th surviving detection *)
NoVisionCalls(k) ==
  /\ calls[k]["validate"] = 0
  /\ calls[k]["damage"] = 0
  /\ calls[k]["description"] = 0
  /\ calls[k]["suggestions"] = 0

(* C1: no two entries of a returned response (the predictions of
   process_image_complete, the detections of detect_objects_only) have
   bounding boxes whose IoU is greater than 0.5. *)
C1_NoOverlapInResponse ==
  pc = "done" =>
    \A a, b \in 1..Len(response) :
       a # b =>
         LET iou == calculate_iou(response[a].bbox, response[b].bbox)
         IN  ~(2 * iou[1] > iou[2])

(* C1 witness: the detector reported two boxes with IoU 3/4 and the returned
   response holds a result. *)
C1_Witness ==
  /\ Returned
  /\ Len(detections) >= 2
  /\ \E a, b \in 1..Len(detections) :
        a # b /\ detections[a].bbox = BoxA /\ detections[b].bbox = BoxB
  /\ Len(response) >= 1

(* C2: when the processing of one surviving detection raises, the results of
   all other surviving detections of the request are still in the returned
   response. *)
C2_OtherResultsKept ==
  (Returned /\ crop_status = "raised") =>
    \A k \in 1..Len(filtered_detections) :
       k # det_index =>
         \E j \in 1..Len(response) :
            /\ response[j].bbox = filtered_detections[k].bbox
            /\ response[j].confidence = filtered_detections[k].confidence

(* C3: a request that waits for the validation, damage, description or
   suggestion capability always goes on to return a response, whether the
   capability answers or not. *)
C3_WaitLeadsToReturn ==
  (pc \in {"wait_validate", "wait_damage", "wait_description", "wait_suggestions"})
    ~> (pc = "done")

(* C4: after a failed validation call the result carries a detection_source
   different from "YOLO", the marker of a confirmed category. *)
C4_FailureMarkerDistinct ==
  (AfterCascade /\ validation_status \in ValidationFailures) =>
    LastPrediction.detection_source # "YOLO"

(* C5: after a failed validation call the final category of the result is the
   canonical category mapped from the detector's label. *)
C5_FailureKeepsCanonical ==
  (AfterCascade /\ validation_status \in ValidationFailures) =>
    LastPrediction.category = get_mapped_category(LastDetection.category)

(* C5 witness: a result was built after the backend raised during validation,
   for a label whose canonical category differs from the label. *)
C5_Witness ==
  /\ AfterCascade
  /\ validation_status = "exception"
  /\ LastDetection.category = "Smartphone"
  /\ LastPrediction.category = "Handphone"

(* C6: a correction outside PRICE_CATEGORIES, or a missing one, is discarded
   and the canonical category kept; a final category different from the
   canonical one is a member of PRICE_CATEGORIES. *)
C6_InvalidCorrectionDiscarded ==
  /\ (AfterCascade /\ validation_status = "rejected") =>
        LastPrediction.category = get_mapped_category(LastDetection.category)
  /\ \A k \in 1..Len(predictions) :
        predictions[k].category # get_mapped_category(filtered_detections[k].category)
          => predictions[k].category \in PRICE_CATEGORIES

(* C6 witness: validation rejected the category without a usable correction
   and the result was built. *)
C6_Witness ==
  /\ AfterCascade
  /\ validation_status = "rejected"
  /\ LastPrediction.detection_source = "YOLO (Gemini fail)"

(* C7: for a surviving detection whose crop is under the minimum size or cannot
   be opened, no validation, damage, description or suggestion call is made. *)
C7_NoCallsForSmallCrop ==
  /\ \A k \in 1..Len(calls) :
        BelowMinimumSize(filtered_detections[k].bbox) => NoVisionCalls(k)
  /\ (AfterCascade /\ crop_status = "unopenable") => NoVisionCalls(Len(predictions))

(* C7 witness: the first survivor's crop was under the minimum size, and the
   cascade of the second survivor is under way. *)
C7_Witness ==
  /\ Len(calls) = 2
  /\ BelowMinimumSize(filtered_detections[1].bbox)
  /\ calls[1]["crop"] = 1
  /\ calls[2]["validate"] = 1

(* C8: the result of a detection whose crop is under the minimum size has the
   canonical category, the default description of that category, the three
   generic suggestions, damage level 3 and the source "YOLO (crop too small)";
   no result of a detection that went through validation carries that source. *)
C8_TooSmallResult ==
  \A k \in 1..Len(predictions) :
     LET canonical == get_mapped_category(filtered_detections[k].category)
     IN  /\ BelowMinimumSize(filtered_detections[k].bbox) =>
              /\ predictions[k].category = canonical
              /\ predictions[k].description =
                   <<"Perangkat elektronik", " ", Lower(canonical)>>
              /\ predictions[k].suggestion =
                   <<"Periksa panduan manufacturer", "Pisahkan komponen berbahaya",
                     "Bawa ke pusat daur ulang e-waste">>
              /\ predictions[k].damage_level = 3
              /\ predictions[k].detection_source = "YOLO (crop too small)"
         /\ calls[k]["validate"] > 0 =>
              predictions[k].detection_source # "YOLO (crop too small)"

(* C8 witness: a response holding the result of a too-small crop next to the
   result of an analysed one. *)
C8_Witness ==
  /\ Returned
  /\ Len(response) = 2
  /\ \E k \in 1..2 : BelowMinimumSize(filtered_detections[k].bbox)
  /\ \E k \in 1..2 : calls[k]["validate"] > 0

(* C9: when the detector reports nothing, process_image_complete has returned
   an empty list at once: nothing was cropped and no stage was called. *)
C9_EmptyReturnsAtOnce ==
  (endpoint = "predict" /\ detections = <<>>) =>
    /\ pc = "done"
    /\ response = <<>>
    /\ calls = <<>>
    /\ cropped_paths = <<>>
    /\ consulted = {}

(* C9 witness: a loaded detector reported nothing and the request returned. *)
C9_Witness ==
  /\ Returned
  /\ yolo_state = "loaded"
  /\ detections = <<>>
  /\ response = <<>>

(* C10: the returned response holds exactly one result per surviving
   detection, in the order of the surviving detections. *)
C10_OneResultPerSurvivor ==
  (Returned /\ detections # <<>>) =>
    /\ Len(response) = Len(filtered_detections)
    /\ \A k \in 1..Len(response) :
          /\ response[k].bbox = filtered_detections[k].bbox
          /\ response[k].confidence = filtered_detections[k].confidence


(* the k-th surviving detection is one of the raw detections, unchanged *)
IsRawDetection(d) == \E j \in 1..Len(detections) : detections[j] = d

(* C11: every result has the confidence and the bounding box of the raw
   detection it was built from, on the too-small path and on every path
   through the validation. *)
C11_ConfidenceAndBoxKept ==
  \A k \in 1..Len(predictions) :
     /\ IsRawDetection(filtered_detections[k])
     /\ predictions[k].confidence = filtered_detections[k].confidence
     /\ predictions[k].bbox = filtered_detections[k].bbox

(* C11 witness: validation corrected the category of a detection and its
   result was built. *)
C11_Witness ==
  /\ AfterCascade
  /\ validation_status = "corrected"
  /\ LastPrediction.category = "Monitor"
  /\ LastPrediction.confidence = 900

(* C12: the id of every result is the id the detector gave to the detection
   the result was built from. *)
C12_OriginalId ==
  \A k \in 1..Len(predictions) : predictions[k].id = filtered_detections[k].id

(* C12 as amended: the id of every result is a fresh one, taken from
   generate_unique_id when the result is built: it differs from the id of
   every raw detection of the request and from the id of every other result. *)
C12_FreshId ==
  \A k \in 1..Len(predictions) :
     /\ \A j \in 1..Len(detections) : predictions[k].id # detections[j].id
     /\ \A l \in 1..Len(predictions) : l # k => predictions[l].id # predictions[k].id

(* C12 witness: a response with two results, one from each path. *)
C12_Witness ==
  /\ Returned
  /\ Len(response) = 2
  /\ \E k \in 1..2 : calls[k]["validate"] > 0
  /\ \E k \in 1..2 : calls[k]["validate"] = 0


(* the ways the damage call fails *)
DamageFailures == {"unavailable", "exception", "empty", "unparseable"}

(* the ways a description or suggestion call fails *)
TextFailures == {"unavailable", "exception", "empty"}

(* C13: the damage level of every result lies in 1..5. *)
C13_DamageLevelInRange ==
  \A k \in 1..Len(predictions) : predictions[k].damage_level \in 1..5

(* C14: after a failed damage call the result has damage level 3, and the
   price lookup and the description stage were still run for the detection,
   whose result is in the response once the request has returned. *)
C14_DamageFailureDefault ==
  /\ (AfterCascade /\ damage_status \in DamageFailures) =>
        /\ LastPrediction.damage_level = 3
        /\ calls[Len(predictions)]["price"] = 1
        /\ calls[Len(predictions)]["description"] = 1
        /\ calls[Len(predictions)]["suggestions"] = 1
  /\ (pc = "done" /\ damage_status \in DamageFailures) =>
        /\ predictions # <<>>
        /\ response = predictions

(* C14 witness: the backend raised during the damage call, the later stages
   produced a price and a description of their own, and the request returned. *)
C14_Witness ==
  /\ Returned
  /\ damage_status = "exception"
  /\ LastPrediction.damage_level = 3
  /\ LastPrediction.regression_result # None
  /\ description_status = "text"
  /\ response = predictions

(* C15: when the description call or the suggestion call fails, the result
   has the default description of its category and the three generic
   suggestions. *)
C15_ContentFailureDefaults ==
  (AfterCascade /\ crop_status = "ok"
     /\ (description_status \in TextFailures \/ suggestions_status \in TextFailures)) =>
    /\ LastPrediction.description = DefaultDescription(LastPrediction.category)
    /\ LastPrediction.suggestion = default_suggestions

(* C16: the suggestions of every result are at least one and at most three. *)
C16_SuggestionCount ==
  \A k \in 1..Len(predictions) :
     /\ Len(predictions[k].suggestion) >= 1
     /\ Len(predictions[k].suggestion) <= 3

(* C16 witness: the backend returned more than three numbered lines (the only
   reply giving s1, s2, s3) and the result was built. *)
C16_Witness ==
  /\ AfterCascade
  /\ suggestions_status = "text"
  /\ LastPrediction.suggestion = <<"s1", "s2", "s3">>


(* C17: a result has a price only if its category is a supported price
   category and the price model is loaded; the price endpoint answers null
   when the requested category is unsupported or the model is not loaded; and
   the regression model is handed supported categories only. *)
C17_PriceOnlyForSupported ==
  /\ \A k \in 1..Len(predictions) :
        predictions[k].regression_result # None =>
          /\ predictions[k].category \in PRICE_CATEGORIES
          /\ price_model # "unloaded"
  /\ (endpoint = "price"
        /\ (price_request \notin PRICE_CATEGORIES \/ price_model = "unloaded")) =>
       price_response = None
  /\ price_response # None =>
       /\ price_response[1].category = price_request
       /\ price_request \in PRICE_CATEGORIES
  /\ consulted \subseteq PRICE_CATEGORIES

(* C17 witness: the price endpoint was asked for an unsupported category
   while the price model was loaded and working, and answered null without
   consulting the model. *)
C17_Witness ==
  /\ endpoint = "price"
  /\ pc = "done"
  /\ price_model = "ok"
  /\ price_request = "Gadget"
  /\ price_response = None
  /\ consulted = {}

(* C18: when process_image_complete has returned no temporary crop file
   exists. *)
C18_NoCropFileLeft ==
  Returned => \A f \in files : f[1] # "crop"

(* the stages that call the vision-language backend *)
BackendStages == {"validate", "damage", "description", "suggestions"}

(* C19: validation, damage, description and suggestion are each invoked at
   most once for every surviving detection. *)
C19_AtMostOnce ==
  \A k \in 1..Len(calls) : \A stage \in BackendStages : calls[k][stage] <= 1

(* C19 witness: the validation call of a detection raised, the detection's
   result was built, and each backend stage had been invoked exactly once. *)
C19_Witness ==
  /\ AfterCascade
  /\ validation_status = "exception"
  /\ \A stage \in BackendStages : calls[Len(predictions)][stage] = 1


(* position of a detection in the input list (ids are unique) *)
InputPos(d) == CHOOSE j \in 1..Len(detections) : detections[j] = d

(* a is considered before b: greater confidence, or equal confidence and
   earlier in the input *)
ConsideredBefore(a, b) ==
  \/ a.confidence > b.confidence
  \/ a.confidence = b.confidence /\ InputPos(a) < InputPos(b)

Overlapping(a, b) ==
  IouGreater(calculate_iou(a.bbox, b.bbox), IOU_THRESHOLD_NUM, IOU_THRESHOLD_DEN)

Survives(d) == \E k \in 1..Len(filtered_detections) : filtered_detections[k] = d

(* C20: the order in which the suppression considers the input is a
   rearrangement of it by descending confidence with equal confidences in
   input order; the survivors appear in that order; and of two overlapping
   detections of equal confidence the later one survives only when the
   earlier one was rejected against a survivor considered before it. *)
C20_StableGreedyOrder ==
  pc = "suppressed" =>
    LET considered == SortByConfidenceDesc(detections)
    IN  /\ Len(considered) = Len(detections)
        /\ \A j \in 1..Len(detections) :
              \E k \in 1..Len(considered) : considered[k] = detections[j]
        /\ \A a, b \in 1..Len(considered) :
              a < b => ConsideredBefore(considered[a], considered[b])
        /\ \A a, b \in 1..Len(filtered_detections) :
              a < b => ConsideredBefore(filtered_detections[a], filtered_detections[b])
        /\ \A i, j \in 1..Len(detections) :
              (i < j /\ detections[i].confidence = detections[j].confidence
                 /\ Overlapping(detections[i], detections[j])) =>
                /\ ~(Survives(detections[i]) /\ Survives(detections[j]))
                /\ Survives(detections[j]) =>
                     \E k \in 1..Len(filtered_detections) :
                        /\ ConsideredBefore(filtered_detections[k], detections[i])
                        /\ Overlapping(filtered_detections[k], detections[i])

(* C20 witness: two overlapping detections of equal confidence, the smaller
   box first, and the first one is the survivor. *)
C20_Witness ==
  /\ pc = "suppressed"
  /\ Len(detections) = 2
  /\ detections[1].bbox = BoxB
  /\ detections[2].bbox = BoxA
  /\ detections[1].confidence = detections[2].confidence
  /\ filtered_detections = <<detections[1]>>


(* positions of the input whose box is the box of position i *)
SameBox(i) == {j \in 1..Len(detections) : detections[j].bbox = detections[i].bbox}

BoxArea(bbox) == (bbox[3] - bbox[1]) * (bbox[4] - bbox[2])

(* C21: of several input detections with one identical box of positive area
   that no other detection overlaps above the threshold, exactly one survives
   the suppression, and none of the others has a greater confidence. *)
C21_IdenticalBoxesKeepBest ==
  pc = "suppressed" =>
    \A i \in 1..Len(detections) :
       (/\ Cardinality(SameBox(i)) >= 2
        /\ BoxArea(detections[i].bbox) > 0
        /\ \A j \in (1..Len(detections)) \ SameBox(i) :
              ~Overlapping(detections[j], detections[i])) =>
         /\ Cardinality({g \in SameBox(i) : Survives(detections[g])}) = 1
         /\ \A g, h \in SameBox(i) :
               Survives(detections[g]) =>
                 detections[g].confidence >= detections[h].confidence

(* C21 witness: the same box twice, the lower confidence first, with a
   disjoint box between them; the higher-confidence one and the disjoint one
   survive. *)
C21_Witness ==
  /\ pc = "suppressed"
  /\ Len(detections) = 3
  /\ detections[1].bbox = BoxA /\ detections[1].confidence = 500
  /\ detections[2].bbox = BoxD
  /\ detections[3].bbox = BoxA /\ detections[3].confidence = 900
  /\ ~Survives(detections[1])
  /\ Survives(detections[2])
  /\ Survives(detections[3])

(* C27: every survivor of the suppression is an input detection, unchanged and
   kept once; a detection is dropped only when a survivor of at least its
   confidence overlaps it above the threshold; a detection that no survivor
   overlaps above the threshold survives; and the detection considered first
   survives. *)
C27_SubListAndStrictThreshold ==
  pc = "suppressed" =>
    /\ \A k \in 1..Len(filtered_detections) : IsRawDetection(filtered_detections[k])
    /\ \A a, b \in 1..Len(filtered_detections) :
          a # b => filtered_detections[a] # filtered_detections[b]
    /\ \A i \in 1..Len(detections) :
          ~Survives(detections[i]) =>
            \E k \in 1..Len(filtered_detections) :
               /\ filtered_detections[k].confidence >= detections[i].confidence
               /\ Overlapping(filtered_detections[k], detections[i])
    /\ \A i \in 1..Len(detections) :
          (\A k \in 1..Len(filtered_detections) :
              filtered_detections[k] # detections[i] =>
                ~Overlapping(filtered_detections[k], detections[i])) =>
            Survives(detections[i])
    /\ \A i \in 1..Len(detections) :
          (\A j \in 1..Len(detections) :
              j # i => ConsideredBefore(detections[i], detections[j])) =>
            Survives(detections[i])

(* C27 witness: two boxes whose IoU is exactly the threshold both survive. *)
C27_Witness ==
  /\ pc = "suppressed"
  /\ Len(detections) = 2
  /\ detections[1].bbox = BoxA
  /\ detections[2].bbox = BoxE
  /\ calculate_iou(BoxA, BoxE) = <<2048, 4096>>
  /\ Len(filtered_detections) = 2


(* the supported categories among the corrections the backend proposes *)
SupportedCorrections ==
  {r.correct_category[1] :
     r \in {q \in ValidationReplies : q.kind = "json" /\ q.correct_category # None}}
  \cap PRICE_CATEGORIES

(* C23: after validation confirmed the canonical category the result has the
   canonical category and the source "YOLO"; after validation corrected to a
   supported category the result has that category and the source
   "Gemini Interfered"; and a result has the source "Gemini Interfered" only
   after such a correction. *)
C23_SourceReflectsValidation ==
  AfterCascade =>
    /\ validation_status = "confirmed" =>
          /\ LastPrediction.category = get_mapped_category(LastDetection.category)
          /\ LastPrediction.detection_source = "YOLO"
    /\ validation_status = "corrected" =>
          /\ LastPrediction.category \in SupportedCorrections
          /\ LastPrediction.detection_source = "Gemini Interfered"
    /\ LastPrediction.detection_source = "Gemini Interfered" =>
          validation_status = "corrected"

(* C23 witness: validation corrected a Laptop to Monitor and the result was
   built with the corrected marker. *)
C23_Witness ==
  /\ AfterCascade
  /\ validation_status = "corrected"
  /\ LastDetection.category = "Laptop"
  /\ LastPrediction.category = "Monitor"
  /\ LastPrediction.detection_source = "Gemini Interfered"

(* the handler waits for an answer of the backend *)
Waiting == pc \in {"wait_validate", "wait_damage", "wait_description", "wait_suggestions"}

(* C24: while the cascade of one surviving detection waits for the backend and
   a later surviving detection has not been started, the handler has a step
   it can take (the later cascade can start before the earlier has finished). *)
C24_LaterCascadeCanStart ==
  (Waiting /\ det_index < Len(filtered_detections)) => ENABLED HandlerStep

(* a cascade is under way, or the most recent result came out of a cascade *)
InCascade ==
  pc \in {"validate", "wait_validate", "damage", "wait_damage", "price", "describe",
          "wait_description", "wait_suggestions", "assemble"}

CascadeIndex == IF InCascade THEN det_index ELSE Len(predictions)

(* C28: in the cascade of a detection the damage call is made only after
   validation has answered or fallen back, the price lookup only after the
   damage call has, the description call only after the price lookup, the
   suggestion call only after the description call has, and the risk level is
   computed last; every one of them is called with the final category, which
   is the corrected category after a correction and the canonical one
   otherwise. *)
C28_StagesInSequence ==
  (InCascade \/ (AfterCascade /\ crop_status = "ok")) =>
    LET c == calls[CascadeIndex]
    IN  /\ c["validate"] <= 1 /\ c["damage"] <= c["validate"]
        /\ c["price"] <= c["damage"] /\ c["description"] <= c["price"]
        /\ c["suggestions"] <= c["description"]
        /\ c["damage"] = 1 => validation_status # "none"
        /\ c["price"] = 1 => damage_status # "none"
        /\ c["suggestions"] = 1 => description_status # "none"
        /\ passed_category["risk"] # "" =>
              c["suggestions"] = 1 /\ suggestions_status # "none"
        /\ validation_status = "corrected" => final_category \in SupportedCorrections
        /\ validation_status \notin {"none", "corrected"} =>
              final_category = mapped_category
        /\ \A stage \in {"damage", "price", "description", "suggestions"} :
              /\ c[stage] = 1 => passed_category[stage] = final_category
              /\ c[stage] = 0 => passed_category[stage] = ""
        /\ passed_category["risk"] \in {"", final_category}
        /\ (~InCascade) =>
              /\ passed_category["risk"] = final_category
              /\ LastPrediction.category = final_category
              /\ LastPrediction.risk_lvl =
                   calculate_risk_level(final_category, LastDetection.confidence)

(* C28 witness: validation corrected the category, and damage, price,
   description, suggestions and risk were all given the corrected category. *)
C28_Witness ==
  /\ AfterCascade
  /\ validation_status = "corrected"
  /\ mapped_category = "Laptop"
  /\ \A stage \in DOMAIN passed_category : passed_category[stage] = "Monitor"
  /\ consulted = {"Monitor"}

(* C30: the results of a returned process_image_complete and the detections
   of a returned detect_objects_only are in order of non-increasing
   confidence. *)
C30_ResponseByConfidence ==
  (pc = "done" /\ endpoint \in {"predict", "object"}) =>
    \A a, b \in 1..Len(response) :
       a < b => response[a].confidence >= response[b].confidence

(* C30 witness: the detector emitted the lower confidence first; the response
   has the analysed higher-confidence result ahead of the too-small one. *)
C30_Witness ==
  /\ Returned
  /\ Len(detections) = 2
  /\ detections[1].confidence < detections[2].confidence
  /\ Len(response) = 2
  /\ response[1].confidence > response[2].confidence
  /\ response[1].detection_source = "YOLO"
  /\ response[2].detection_source = "YOLO (crop too small)"


(* the base risk of a category, 3 outside the table *)
BaseRiskOf(category) == IF category \in DOMAIN base_risk THEN base_risk[category] ELSE 3

(* C22: the risk level is min(5, base + d) with d = 1 for a confidence
   strictly under 0.5 and 0 otherwise; it lies in 1..5; and for the same
   category no confidence under the threshold gives a lower level than a
   confidence at or above it. *)
C22_RiskLevelFormula ==
  pc = "risk_done" =>
    LET d == IF fn_input.confidence < 500 THEN 1 ELSE 0
    IN  /\ fn_output = Min2(5, BaseRiskOf(fn_input.category) + d)
        /\ fn_output \in 1..5
        /\ \A low, high \in RiskConfidences :
              (low < 500 /\ high >= 500) =>
                calculate_risk_level(fn_input.category, low)
                  >= calculate_risk_level(fn_input.category, high)

(* C22 witness: a category of base risk 5 with a confidence just under the
   threshold stays at 5. *)
C22_Witness ==
  /\ pc = "risk_done"
  /\ fn_input = [category |-> "Refrigerator", confidence |-> 499]
  /\ fn_output = 5

(* C25: get_mapped_category returns the table entry of a key and the label
   itself otherwise, and what it returns is the label or a member of
   PRICE_CATEGORIES. *)
C25_MapLookupOrIdentity ==
  pc = "mapped" =>
    /\ fn_input \in DOMAIN YOLO_TO_PRICE_MAP => fn_output = YOLO_TO_PRICE_MAP[fn_input]
    /\ fn_input \notin DOMAIN YOLO_TO_PRICE_MAP => fn_output = fn_input
    /\ fn_output = fn_input \/ fn_output \in PRICE_CATEGORIES

(* C25 witness: a label that is neither a key nor a price category comes back
   unchanged. *)
C25_Witness ==
  /\ pc = "mapped"
  /\ fn_input = "Gadget"
  /\ fn_output = "Gadget"

(* two boxes share no area *)
Disjoint(box1, box2) ==
  \/ box1[3] <= box2[1] \/ box2[3] <= box1[1]
  \/ box1[4] <= box2[2] \/ box2[4] <= box1[2]

(* C26: for boxes with x1 <= x2 and y1 <= y2 the IoU is a fraction between 0
   and 1; it is 0 for boxes that share no area; and it is 0 when both boxes
   have no area (the union is 0). *)
C26_IouInUnitRange ==
  pc = "iou_done" =>
    /\ fn_output[2] > 0
    /\ 0 <= fn_output[1]
    /\ fn_output[1] <= fn_output[2]
    /\ Disjoint(fn_input[1], fn_input[2]) => fn_output[1] = 0
    /\ (BoxArea(fn_input[1]) = 0 /\ BoxArea(fn_input[2]) = 0) => fn_output = <<0, 1>>

(* C26 witness: two boxes apart from each other in x, one of them without
   area, give 0. *)
C26_Witness ==
  /\ pc = "iou_done"
  /\ fn_input = << <<0, 0, 1, 2>>, <<2, 0, 2, 2>> >>
  /\ fn_output[1] = 0

(* C29: the label of every class index the detector reports is a key of
   YOLO_TO_PRICE_MAP, and its canonical category is the table entry, a member
   of PRICE_CATEGORIES. *)
C29_ClassLabelsAreMapped ==
  pc = "labelled" =>
    /\ fn_output.category \in DOMAIN YOLO_TO_PRICE_MAP
    /\ fn_output.mapped_category = YOLO_TO_PRICE_MAP[fn_output.category]
    /\ fn_output.mapped_category \in PRICE_CATEGORIES

(* C29 witness: class 60, "Smartphone", whose canonical category differs from
   the label. *)
C29_Witness ==
  /\ pc = "labelled"
  /\ fn_input = 60
  /\ fn_output = [category |-> "Smartphone", mapped_category |-> "Handphone"]

=============================================================================
